---- MODULE Spec2Model ----
(***************************************************************************)
(* Model of the LLM-planned newsletter pipeline of backend/agent:          *)
(* invoke_agent's planning/dispatch loop (agent.py), the tool manifests    *)
(* (tool_manifests.py), the planner plan_next_step (llm.py) and the four   *)
(* tools (tools.py, llm.py).                                               *)
(*                                                                         *)
(* Python values are encoded as strings.  The tokens below stand for the   *)
(* values that are not strings; every other string stands for itself.      *)
(* Email dicts are heap objects: the tools mutate them in place and the    *)
(* state lists share them, so lists hold references into `heap`.           *)
(***************************************************************************)
EXTENDS Integers, Sequences, FiniteSets, TLC

\* ---------------------------------------------------------------- bounds
MaxEmails == 3
MaxCycles == 3
MaxReasonLen == 2

\* ------------------------------------------------------ Python values
NONE   == "<None>"
TRUE_  == "<True>"
FALSE_ == "<False>"
LIST   == "<non-empty list>"
NUM    == "<non-zero int>"

\* bool(v): Python truthiness of an encoded value
Truthy(v) == v \notin {NONE, FALSE_, ""}

\* isinstance(v, str)
IsStr(v) == v \notin {NONE, TRUE_, FALSE_, LIST, NUM}

\* isinstance(v, bool)
IsBool(v) == v \in {TRUE_, FALSE_}

Range(s) == {s[i] : i \in 1..Len(s)}

\* ------------------------------------------------------------ registry
ToolNames ==
    {"fetch_emails", "analyze_newsletters", "summarize_newsletters", "format_digest"}

NoFilter == [present |-> FALSE, field |-> "", value |-> NONE]

TOOL_MANIFESTS ==
    [t \in ToolNames |->
        CASE t = "fetch_emails" ->
                [input_params |-> << [name |-> "num_emails", required |-> FALSE,
                                      filter |-> NoFilter] >>,
                 reads  |-> << >>,
                 writes |-> << "emails" >>]
          [] t = "analyze_newsletters" ->
                [input_params |-> << [name |-> "emails", required |-> TRUE,
                                      filter |-> NoFilter] >>,
                 reads  |-> << "emails" >>,
                 writes |-> << "newsletters" >>]
          [] t = "summarize_newsletters" ->
                [input_params |-> << [name |-> "newsletters", required |-> TRUE,
                                      filter |-> [present |-> TRUE,
                                                  field |-> "is_newsletter",
                                                  value |-> TRUE_]] >>,
                 reads  |-> << "newsletters" >>,
                 writes |-> << "summarized_newsletters" >>]
          [] t = "format_digest" ->
                [input_params |-> << [name |-> "summarized_newsletters", required |-> TRUE,
                                      filter |-> [present |-> TRUE,
                                                  field |-> "is_newsletter",
                                                  value |-> TRUE_]] >>,
                 reads  |-> << "summarized_newsletters" >>,
                 writes |-> << "digest" >>]]

\* TOOLS: the registry the loop dispatches on (name -> manifest; the callables
\* are the tool actions below)
TOOLS == [t \in ToolNames |-> [manifest |-> TOOL_MANIFESTS[t]]]

\* ---------------------------------------------------------------- heap
\* One email dict.  subject / from / content are never written after the
\* fetch and are left out; is_newsletter and summary are NONE while absent
\* (dict.get returns None for an absent key).
FreshItem == [is_newsletter |-> NONE, summary |-> NONE]

\* at most three generations of fetched emails are held by the three lists
\* of the state while a fourth is being fetched
Refs == 1..(4 * MaxEmails)

\* values the classifier's JSON can carry in is_newsletter
NewsletterFlags == {TRUE_, FALSE_, "yes"}

\* texts the digest renderer can return (response.text: any str)
DigestTexts == {"", "# Newsletter Digest A", "# Newsletter Digest B"}

SENTINEL == "# Newsletter Digest\n\nNo newsletters found in the analyzed emails."

VARIABLES
    pc,            \* position of invoke_agent
    email_count,   \* argument of invoke_agent
    state,         \* the state dict of the run
    heap,          \* the email dicts the lists of state refer to
    raw,           \* what the oracle call produced in this iteration
    plan,          \* what plan_next_step returned in this iteration
    tool_name,     \* agent.py:143
    tool_params,   \* agent.py:144
    result,        \* agent.py:148
    stub,          \* the oracle driving the run: "none" (any output), or a stub
    cycles,        \* history: the number of tool invocations so far
    calls,         \* history, kept for stubbed runs: the tool calls, in order
    returned,      \* the value invoke_agent returned (NONE until DONE)
    error,         \* the exception invoke_agent raised (NONE until FAILED)
    oracle_calls,  \* generate_content calls made by the planning step at hand
    cancel_requested, \* the caller asked to cancel the call now in flight
    registry,      \* the module-level dict TOOLS, shared by every run
    peer,          \* the locals of the other, suspended run (NoPeer: none)
    active,        \* which run the variables above belong to
    response       \* the response.text under study (NoResponse: none)

vars == << pc, email_count, state, heap, raw, plan, tool_name, tool_params,
           result, stub, cycles, calls, returned, error, oracle_calls,
           cancel_requested, registry, peer, active, response >>


\* ------------------------------------------------------------- planner
RequiredFields == {"tool", "reason", "is_complete"}

\* What one oracle call can produce, after clean_json_response and json.loads:
\*   exception     generate_content or response.text raised
\*   empty, blank  response.text is "" / None, or only whitespace
\*   invalid_json  json.loads raises JSONDecodeError
\*   json_scalar   a JSON number, true, false or null
\*   json_list     a JSON array; keys = the strings it contains
\*   json_string   a JSON string; keys = the field names occurring in it
\*   json_object   a JSON object with the given keys and field values
NonObject(kind, keys) ==
    [kind |-> kind, keys |-> keys, tool |-> NONE, reason |-> NONE, is_complete |-> NONE]

Object(keys, tool, reason, is_complete) ==
    [kind |-> "json_object", keys |-> keys,
     tool |-> IF "tool" \in keys THEN tool ELSE NONE,
     reason |-> IF "reason" \in keys THEN reason ELSE NONE,
     is_complete |-> IF "is_complete" \in keys THEN is_complete ELSE NONE]

PlanTools == ToolNames \cup {"no_such_tool", "", NONE}

WellFormedOutputs ==
    {Object(RequiredFields, t, "because", c) : t \in PlanTools, c \in {TRUE_, FALSE_}}

MissingFieldOutputs ==
    {Object(K, "analyze_newsletters", "because", c) :
        K \in (SUBSET RequiredFields) \ {RequiredFields}, c \in {TRUE_, FALSE_}}

ExtraFieldOutputs ==
    {Object(RequiredFields \cup {"confidence"}, "fetch_emails", "because", c) :
        c \in {TRUE_, FALSE_}}

IllTypedOutputs ==
    { Object(RequiredFields, "analyze_newsletters", "because", "false"),
      Object(RequiredFields, "analyze_newsletters", "because", NONE),
      Object(RequiredFields, "fetch_emails", NUM, FALSE_),
      Object(RequiredFields, LIST, "because", FALSE_),
      Object(RequiredFields, LIST, "because", TRUE_) }

NonObjectOutputs ==
    { NonObject("exception", {}), NonObject("empty", {}), NonObject("blank", {}),
      NonObject("invalid_json", {}), NonObject("json_scalar", {}),
      NonObject("json_list", {}), NonObject("json_list", RequiredFields),
      NonObject("json_string", RequiredFields) }

OracleOutputs ==
    WellFormedOutputs \cup MissingFieldOutputs \cup ExtraFieldOutputs
        \cup IllTypedOutputs \cup NonObjectOutputs

NoRaw == NonObject("none", {})

\* no response.text is modelled: the oracle output is drawn after cleaning
\* and parsing
NoResponse == [form |-> "none"]

FallbackPlan(reason) ==
    [keys |-> RequiredFields, tool |-> "fetch_emails", reason |-> reason,
     is_complete |-> FALSE_]

NoPlan == [keys |-> {}, tool |-> NONE, reason |-> NONE, is_complete |-> NONE]

\* plan_next_step without the required-fields check of llm.py:334-337
plan_next_step_NoFieldCheck(r) ==
    IF r.kind = "json_object"
    THEN [keys |-> r.keys, tool |-> r.tool, reason |-> r.reason,
          is_complete |-> r.is_complete]
    ELSE FallbackPlan("Starting with email fetch due to error")

\* plan_next_step: the value handed to the loop for the oracle output r
plan_next_step(r) ==
    CASE r.kind = "exception" ->
            FallbackPlan("Starting with email fetch due to error")
      [] r.kind \in {"empty", "blank"} ->
            FallbackPlan("Starting with email fetch as no response received")
      [] r.kind = "invalid_json" ->
            FallbackPlan("Starting with email fetch due to JSON parsing error")
      [] r.kind = "json_scalar" ->
            \* `field in plan` raises TypeError, caught at llm.py:349
            FallbackPlan("Starting with email fetch due to error")
      [] r.kind \in {"json_list", "json_string"} ->
            \* `field in plan` is list membership / substring search; when all
            \* three succeed, plan['tool'] at llm.py:339 raises TypeError,
            \* otherwise plan.keys() at llm.py:336 raises AttributeError
            FallbackPlan("Starting with email fetch due to error")
      [] r.kind = "json_object" ->
            IF RequiredFields \subseteq r.keys
            THEN [keys |-> r.keys, tool |-> r.tool, reason |-> r.reason,
                  is_complete |-> r.is_complete]
            ELSE FallbackPlan("Starting with email fetch due to invalid response format")

\* ------------------------------------------------------ binder and store
ListKeys == {"emails", "newsletters", "summarized_newsletters"}

\* isinstance(state[key], list): the three list keys hold lists from the
\* initial state on and are only ever written with list results
IsList(key) == key \in ListKeys

\* the filter testing truthiness instead of equality with the filter value
FilterItems_Truthy(items, h, filter_info) ==
    SelectSeq(items, LAMBDA r : Truthy(h[r][filter_info.field]))

\* the list comprehension of agent.py:64-67 over a list of heap references
FilterItems(items, h, filter_info) ==
    SelectSeq(items, LAMBDA r : h[r][filter_info.field] = filter_info.value)

\* the value bound to one parameter that is a key of the state (agent.py:58-69)
BindFromState(param_info, st, h) ==
    IF param_info.filter.present /\ IsList(param_info.name)
    THEN FilterItems(st[param_info.name], h, param_info.filter)
    ELSE st[param_info.name]

\* the binder looking num_emails up in the state before the constant
prepare_tool_params_StateFirst(tool, st, h, count) ==
    LET input_params == registry[tool].manifest.input_params
        info(name) == CHOOSE p \in Range(input_params) : p.name = name
        bound == {p.name : p \in {q \in Range(input_params) :
                                    q.name = "num_emails" \/ q.name \in DOMAIN st}}
    IN  [name \in bound |->
            IF name \in DOMAIN st THEN BindFromState(info(name), st, h) ELSE count]

\* agent.py:39-71
prepare_tool_params(tool, st, h, count) ==
    LET input_params == registry[tool].manifest.input_params
        info(name) == CHOOSE p \in Range(input_params) : p.name = name
        bound == {p.name : p \in {q \in Range(input_params) :
                                    q.name = "num_emails" \/ q.name \in DOMAIN st}}
    IN  [name \in bound |->
            IF name = "num_emails" THEN count ELSE BindFromState(info(name), st, h)]

\* the store resetting the digest whenever another key is written
update_state_ClearsDigest(st, tool, res) ==
    LET state_updates == registry[tool].manifest.writes
    IN  [k \in DOMAIN st \cup Range(state_updates) |->
            IF k \in Range(state_updates) THEN res
            ELSE IF k = "digest" THEN NONE
            ELSE st[k]]

\* the store keeping email_count in step with the length of a list result
update_state_CountsItems(st, tool, res) ==
    LET state_updates == registry[tool].manifest.writes
    IN  [k \in DOMAIN st \cup Range(state_updates) |->
            IF k \in Range(state_updates) THEN res
            ELSE IF k = "email_count" /\ Range(state_updates) \subseteq ListKeys
            THEN Len(res)
            ELSE st[k]]

\* the store appending a list result to the list a write key already holds
update_state_Append(st, tool, res) ==
    LET state_updates == registry[tool].manifest.writes
    IN  [k \in DOMAIN st \cup Range(state_updates) |->
            IF k \in Range(state_updates)
            THEN (IF k \in DOMAIN st /\ IsList(k) THEN st[k] \o res ELSE res)
            ELSE st[k]]

\* agent.py:73-91
update_state(st, tool, res) ==
    LET state_updates == registry[tool].manifest.writes
    IN  [k \in DOMAIN st \cup Range(state_updates) |->
            IF k \in Range(state_updates) THEN res ELSE st[k]]

\* the return statement without its `or` fallback
ReturnValue_DigestOnly(st) == st.digest

\* agent.py:136
ReturnValue(st) == IF Truthy(st.digest) THEN st.digest ELSE SENTINEL

\* agent.py:138: "ok", or the exception the check ends the run with
ToolCheck(p) ==
    IF ~Truthy(p.tool) THEN "ValueError: Invalid tool selected"
    ELSE IF p.tool = LIST THEN "TypeError: unhashable type: 'list'"
    ELSE IF p.tool \notin DOMAIN registry THEN "ValueError: Invalid tool selected"
    ELSE "ok"

\* the loop testing the tool name before the completion flag
Dispatch_ToolCheckFirst(p) ==
    IF ToolCheck(p) # "ok" THEN ToolCheck(p)
    ELSE IF Truthy(p.is_complete) THEN "complete"
    ELSE "ok"

\* agent.py:131-140: what the loop does with the plan p: "complete" (return),
\* "ok" (invoke the tool), or the exception that ends the run
Dispatch(p) ==
    IF Truthy(p.is_complete) THEN "complete" ELSE ToolCheck(p)

\* an initial state from which the three list keys are missing
InitialState_NoLists(count) == [digest |-> NONE, email_count |-> count]

\* agent.py:107-113
InitialState(count) ==
    [emails |-> << >>, newsletters |-> << >>, summarized_newsletters |-> << >>,
     digest |-> NONE, email_count |-> count]

Reachable(st) ==
    Range(st.emails) \cup Range(st.newsletters) \cup Range(st.summarized_newsletters)

\* the dicts a run holds: those of its state's lists and, between the return
\* of a list-valued tool and update_state, those of the returned list
LiveRefs(run) ==
    Reachable(run.state)
        \cup (IF run.pc = "UPDATING" /\ run.tool_name # "format_digest"
              THEN Range(run.result) ELSE {})

\* the dicts the suspended run holds
PeerRefs == IF peer.pc = "ABSENT" THEN {} ELSE LiveRefs(peer)

\* the n lowest references no run holds
RECURSIVE FreshRefs(_, _)
FreshRefs(n, used) ==
    IF n = 0 \/ Refs \ used = {} THEN << >>
    ELSE LET r == CHOOSE x \in Refs \ used : \A y \in Refs \ used : x <= y
         IN  << r >> \o FreshRefs(n - 1, used \cup {r})

Min(a, b) == IF a <= b THEN a ELSE b

EmailCounts == {MaxEmails}

\* ------------------------------------------------------------ oracles
\* The oracle is the environment.  "none": every call can produce any of
\* OracleOutputs.  A tool name: the stub that answers that tool with
\* is_complete false on every call.  "happy_path": the stub that answers the
\* four tools in pipeline order and then is_complete true.
HappyPath ==
    << "fetch_emails", "analyze_newsletters", "summarize_newsletters", "format_digest" >>

Stubs == {"none", "happy_path"} \cup ToolNames

OracleAnswers(s, log) ==
    IF s = "none" THEN OracleOutputs
    ELSE IF s = "happy_path"
    THEN IF Len(log) < Len(HappyPath)
         THEN {Object(RequiredFields, HappyPath[Len(log) + 1], "because", FALSE_)}
         ELSE {Object(RequiredFields, NONE, "because", TRUE_)}
    ELSE {Object(RequiredFields, s, "because", FALSE_)}

\* the iteration cap the specification asks of the loop: one pass over the
\* registry.  agent.py has no such constant.
IterationCap == Cardinality(ToolNames)

\* How far a run is followed.  The loop of agent.py:126 has no bound of its
\* own: a run under an arbitrary oracle is cut after MaxCycles tool
\* invocations, a run under a never-completing stub one invocation past
\* IterationCap; the happy-path stub completes by itself.
CycleBound(s) ==
    IF s = "none" THEN MaxCycles
    ELSE IF s = "happy_path" THEN Len(HappyPath)
    ELSE IterationCap + 1

\* --------------------------------------------------------------- tools
\* identify_newsletters (llm.py:89-184) on the list `emails`: the loop of
\* llm.py:157-170 writes is_newsletter into the first `done` dicts of the
\* list, flag[i] into the i-th
MarkNewsletters(h, emails, done, flag) ==
    [r \in Refs |->
        IF \E i \in 1..done : emails[i] = r
        THEN [h[r] EXCEPT !.is_newsletter =
                flag[CHOOSE i \in 1..done : emails[i] = r /\ \A j \in (i+1)..done : emails[j] # r]]
        ELSE h[r]]

\* generate_summaries (llm.py:186-219): llm.py:215 writes summary into the
\* first `done` dicts of the list
AddSummaries(h, newsletters, done) ==
    [r \in Refs |->
        IF \E i \in 1..done : newsletters[i] = r
        THEN [h[r] EXCEPT !.summary = "summary text"]
        ELSE h[r]]

\* the dicts no list of a run's state refers to any more are freed (CPython
\* frees a dict when its last reference goes)
Collect(h, st) ==
    [r \in Refs |-> IF r \in Reachable(st) \cup PeerRefs THEN h[r] ELSE FreshItem]

\* ------------------------------------------------------------- actions
\* a process serving one request only
NoPeer == [pc |-> "ABSENT"]

Init ==
    /\ pc = "PLANNING"
    /\ email_count \in EmailCounts
    /\ state = InitialState(email_count)
    /\ heap = [r \in Refs |-> FreshItem]
    /\ raw = NoRaw
    /\ plan = NoPlan
    /\ tool_name = NONE
    /\ tool_params = << >>
    /\ result = NONE
    /\ stub \in Stubs
    /\ cycles = 0
    /\ calls = << >>
    /\ returned = NONE
    /\ error = NONE
    /\ oracle_calls = 0
    /\ cancel_requested = FALSE
    /\ registry = TOOLS
    /\ response = NoResponse
    /\ peer = NoPeer
    /\ active = 1

\* a planning step that stores the reason of its plan in the state
PlanNextStep_StoresReason ==
    /\ pc = "PLANNING"
    /\ \E r \in OracleAnswers(stub, calls) :
        /\ raw' = r
        /\ plan' = plan_next_step(r)
        /\ state' = [k \in DOMAIN state \cup {"last_reason"} |->
                        IF k = "last_reason" THEN plan_next_step(r).reason ELSE state[k]]
    \* llm.py:311 is the only generate_content call of plan_next_step
    /\ oracle_calls' = 1
    /\ cancel_requested' = FALSE
    /\ pc' = "VALIDATING"
    /\ UNCHANGED << response, registry, peer, active, email_count, heap, tool_name, tool_params, result, stub,
                    cycles, calls, returned, error >>

\* agent.py:128: one oracle call, normalised by plan_next_step
PlanNextStep ==
    /\ pc = "PLANNING"
    /\ \E r \in OracleAnswers(stub, calls) :
        /\ raw' = r
        /\ plan' = plan_next_step(r)
    \* llm.py:311 is the only generate_content call of plan_next_step
    /\ oracle_calls' = 1
    /\ cancel_requested' = FALSE
    /\ pc' = "VALIDATING"
    /\ UNCHANGED << response, registry, peer, active, email_count, state, heap, tool_name, tool_params, result, stub,
                    cycles, calls, returned, error >>

\* a completion that hands the digest over and goes on planning
Complete_Resumes ==
    /\ pc = "VALIDATING"
    /\ Dispatch(plan) = "complete"
    /\ returned' = ReturnValue(state)
    /\ pc' = "PLANNING"
    /\ raw' = NoRaw
    /\ plan' = NoPlan
    /\ oracle_calls' = 0
    /\ UNCHANGED cancel_requested
    /\ UNCHANGED << response, registry, peer, active, email_count, state, heap, tool_name, tool_params, result, stub,
                    cycles, calls, error >>

\* agent.py:131-136
Complete ==
    /\ pc = "VALIDATING"
    /\ Dispatch(plan) = "complete"
    /\ returned' = ReturnValue(state)
    /\ pc' = "DONE"
    /\ raw' = NoRaw
    /\ plan' = NoPlan
    /\ oracle_calls' = 0
    /\ UNCHANGED cancel_requested
    /\ UNCHANGED << response, registry, peer, active, email_count, state, heap, tool_name, tool_params, result, stub,
                    cycles, calls, error >>

\* agent.py:138-140, re-raised at agent.py:155-157
InvalidTool ==
    /\ pc = "VALIDATING"
    /\ Dispatch(plan) \notin {"complete", "ok"}
    /\ error' = Dispatch(plan)
    /\ pc' = "FAILED"
    /\ raw' = NoRaw
    /\ plan' = NoPlan
    /\ oracle_calls' = 0
    /\ UNCHANGED cancel_requested
    /\ UNCHANGED << response, registry, peer, active, email_count, state, heap, tool_name, tool_params, result, stub,
                    cycles, calls, returned >>

\* agent.py:143-145
PrepareToolParams ==
    /\ pc = "VALIDATING"
    /\ Dispatch(plan) = "ok"
    /\ cycles < CycleBound(stub)
    /\ tool_name' = plan.tool
    /\ tool_params' = prepare_tool_params(plan.tool, state, heap, email_count)
    /\ pc' = "EXECUTING"
    /\ raw' = NoRaw
    /\ plan' = NoPlan
    /\ oracle_calls' = 0
    /\ UNCHANGED cancel_requested
    /\ UNCHANGED << response, registry, peer, active, email_count, state, heap, result, stub, cycles, calls, returned,
                    error >>

\* the tool function was entered with tool_params; stubbed runs log the
\* call with what it returned (NONE when it raised)
Invoked(out) ==
    /\ cycles' = cycles + 1
    /\ cancel_requested' = FALSE
    /\ UNCHANGED oracle_calls
    /\ calls' = IF stub = "none" THEN calls
              ELSE Append(calls, [tool |-> tool_name, args |-> tool_params, out |-> out])

\* the tool's return value kept for a later update, the loop planning again
\* at once
ToolReturns_UpdateDeferred(res) ==
    /\ result' = res
    /\ pc' = "PLANNING"
    /\ Invoked(res)
    /\ UNCHANGED error

\* agent.py:148, the tool returns
ToolReturns(res) ==
    /\ result' = res
    /\ pc' = "UPDATING"
    /\ Invoked(res)
    /\ UNCHANGED error

\* the exception of a tool swallowed by the loop, which plans again
ToolRaises_Swallowed(e) ==
    /\ error' = e
    /\ pc' = "PLANNING"
    /\ Invoked(NONE)
    /\ UNCHANGED result

\* agent.py:148, the tool raises: agent.py:155-157 re-raise
ToolRaises(e) ==
    /\ error' = e
    /\ pc' = "FAILED"
    /\ Invoked(NONE)
    /\ UNCHANGED result

\* agent.py:148 with tools.py:71-104
FetchEmails ==
    /\ pc = "EXECUTING"
    /\ tool_name = "fetch_emails"
    /\ \/ \E n \in 0..Min(tool_params["num_emails"], MaxEmails) :
            ToolReturns(FreshRefs(n, Reachable(state) \cup PeerRefs))
       \/ ToolRaises("fetch_emails raised")
    /\ UNCHANGED << response, registry, peer, active, email_count, state, heap, raw, plan, tool_name, tool_params, stub,
                    returned >>

\* agent.py:148 with tools.py:106-117 and llm.py:89-184
AnalyzeNewsletters ==
    /\ pc = "EXECUTING"
    /\ tool_name = "analyze_newsletters"
    /\ LET emails == tool_params["emails"] IN
        \/ \E flag \in [1..Len(emails) -> NewsletterFlags] :
            /\ heap' = MarkNewsletters(heap, emails, Len(emails), flag)
            /\ ToolReturns(emails)
        \/ \E done \in 0..(Len(emails) - 1) \cup {0} :
            \E flag \in [1..done -> NewsletterFlags] :
                \* an exception before or inside the loop: llm.py:176-184 return []
                /\ heap' = MarkNewsletters(heap, emails, done, flag)
                /\ ToolReturns(<< >>)
    /\ UNCHANGED << response, registry, peer, active, email_count, state, raw, plan, tool_name, tool_params, stub,
                    returned >>

\* agent.py:148 with tools.py:119-130 and llm.py:186-219
SummarizeNewsletters ==
    /\ pc = "EXECUTING"
    /\ tool_name = "summarize_newsletters"
    /\ LET newsletters == tool_params["newsletters"] IN
        \/ /\ heap' = AddSummaries(heap, newsletters, Len(newsletters))
           /\ ToolReturns(newsletters)
        \/ \E failing \in 1..Len(newsletters) :
            \* generate_content raises for the failing-th newsletter
            /\ heap' = AddSummaries(heap, newsletters, failing - 1)
            /\ ToolRaises("summarize_newsletters raised")
    /\ UNCHANGED << response, registry, peer, active, email_count, state, raw, plan, tool_name, tool_params, stub,
                    returned >>

\* agent.py:148 with tools.py:132-143 and llm.py:221-246
FormatDigest ==
    /\ pc = "EXECUTING"
    /\ tool_name = "format_digest"
    /\ \/ \E text \in DigestTexts : ToolReturns(text)
       \/ ToolRaises("format_digest raised")
    /\ UNCHANGED << response, registry, peer, active, email_count, state, heap, raw, plan, tool_name, tool_params, stub,
                    returned >>

\* agent.py:151
UpdateState ==
    /\ pc = "UPDATING"
    /\ state' = update_state(state, tool_name, result)
    /\ heap' = Collect(heap, state')
    /\ tool_name' = NONE
    /\ tool_params' = << >>
    /\ result' = NONE
    /\ pc' = "PLANNING"
    /\ UNCHANGED << oracle_calls, cancel_requested >>
    /\ UNCHANGED << response, registry, peer, active, email_count, raw, plan, stub, cycles, calls, returned, error >>

\* The caller asks to cancel while the oracle call or the tool call of the
\* run is in flight.  invoke_agent takes no cancellation or timeout signal
\* and agent.py:126-157 never polls one: the request is read by no step, and
\* the call in flight ends as it would have (PlanNextStep, Invoked).
RequestCancel ==
    /\ pc \in {"PLANNING", "EXECUTING"}
    /\ ~cancel_requested
    /\ cancel_requested' = TRUE
    /\ UNCHANGED << pc, email_count, state, heap, raw, plan, tool_name, tool_params,
                    result, stub, cycles, calls, returned, error, oracle_calls,
                    registry, peer, active, response >>

Next ==
    \/ PlanNextStep
    \/ Complete
    \/ InvalidTool
    \/ PrepareToolParams
    \/ FetchEmails
    \/ AnalyzeNewsletters
    \/ SummarizeNewsletters
    \/ FormatDigest
    \/ UpdateState
    \/ RequestCancel

Spec == Init /\ [][Next]_vars

\* ------------------------------------------------------ two requests
\* app.py:32-52 runs invoke_agent once per request, and the server handles
\* requests in threads: two runs interleave at any point.  The variables
\* describe the run that is executing; `peer` keeps the locals of the other.
Locals ==
    [pc |-> pc, email_count |-> email_count, state |-> state, raw |-> raw,
     plan |-> plan, tool_name |-> tool_name, tool_params |-> tool_params,
     result |-> result, stub |-> stub, cycles |-> cycles, calls |-> calls,
     returned |-> returned, error |-> error, oracle_calls |-> oracle_calls,
     cancel_requested |-> cancel_requested]

\* the locals of a run that has just entered invoke_agent (agent.py:105-123)
InitialLocals(count, s) ==
    [pc |-> "PLANNING", email_count |-> count, state |-> InitialState(count),
     raw |-> NoRaw, plan |-> NoPlan, tool_name |-> NONE, tool_params |-> << >>,
     result |-> NONE, stub |-> s, cycles |-> 0, calls |-> << >>,
     returned |-> NONE, error |-> NONE, oracle_calls |-> 0,
     cancel_requested |-> FALSE]

\* the oracles of the two interleaved runs
ConcStubs == {"happy_path"}

\* the emailCount of the first and of the second interleaved request
ConcEmailCounts == << 2, 1 >>

\* a context switch in which `state` is one dict shared by the two runs
Switch_SharedState ==
    /\ peer.pc \notin {"ABSENT", "DONE", "FAILED"}
    /\ peer' = [Locals EXCEPT !.state = peer.state]
    /\ pc' = peer.pc
    /\ email_count' = peer.email_count
    /\ state' = state
    /\ raw' = peer.raw
    /\ plan' = peer.plan
    /\ tool_name' = peer.tool_name
    /\ tool_params' = peer.tool_params
    /\ result' = peer.result
    /\ stub' = peer.stub
    /\ cycles' = peer.cycles
    /\ calls' = peer.calls
    /\ returned' = peer.returned
    /\ error' = peer.error
    /\ oracle_calls' = peer.oracle_calls
    /\ cancel_requested' = peer.cancel_requested
    /\ active' = 3 - active
    /\ UNCHANGED << heap, registry, response >>

\* a context switch: the other run, not yet over, is resumed.  Every local
\* of invoke_agent, `state` (agent.py:107) included, belongs to its own call;
\* the email dicts and TOOLS live in the one process.
Switch ==
    /\ peer.pc \notin {"ABSENT", "DONE", "FAILED"}
    /\ peer' = Locals
    /\ pc' = peer.pc
    /\ email_count' = peer.email_count
    /\ state' = peer.state
    /\ raw' = peer.raw
    /\ plan' = peer.plan
    /\ tool_name' = peer.tool_name
    /\ tool_params' = peer.tool_params
    /\ result' = peer.result
    /\ stub' = peer.stub
    /\ cycles' = peer.cycles
    /\ calls' = peer.calls
    /\ returned' = peer.returned
    /\ error' = peer.error
    /\ oracle_calls' = peer.oracle_calls
    /\ cancel_requested' = peer.cancel_requested
    /\ active' = 3 - active
    /\ UNCHANGED << heap, registry, response >>

ConcInit ==
    /\ pc = "PLANNING"
    /\ email_count = ConcEmailCounts[1]
    /\ state = InitialState(email_count)
    /\ heap = [r \in Refs |-> FreshItem]
    /\ raw = NoRaw
    /\ plan = NoPlan
    /\ tool_name = NONE
    /\ tool_params = << >>
    /\ result = NONE
    /\ stub \in ConcStubs
    /\ cycles = 0
    /\ calls = << >>
    /\ returned = NONE
    /\ error = NONE
    /\ oracle_calls = 0
    /\ cancel_requested = FALSE
    /\ registry = TOOLS
    /\ response = NoResponse
    /\ peer \in {InitialLocals(ConcEmailCounts[2], s) : s \in ConcStubs}
    /\ active = 1

\* the stubs of ConcStubs never answer an invalid tool
ConcNext ==
    \/ PlanNextStep
    \/ Complete
    \/ PrepareToolParams
    \/ FetchEmails
    \/ AnalyzeNewsletters
    \/ SummarizeNewsletters
    \/ FormatDigest
    \/ UpdateState
    \/ Switch

ConcSpec == ConcInit /\ [][ConcNext]_vars

\* ------------------------------------------------- the binder alone
\* prepare_tool_params is a module-level function of (tool_name, state,
\* email_count): BinderSpec applies it to every registered tool and to state
\* dicts other than those invoke_agent builds: any of the three list keys may
\* be absent, and the state may hold a key named num_emails.
BinderLists == {<< >>, << 1 >>, << 1, 2 >>, << 2, 1, 3 >>}

\* the state with the keys K besides digest and email_count
BinderState(K, lists, count) ==
    [k \in K \cup {"digest", "email_count"} |->
        IF k = "digest" THEN NONE
        ELSE IF k = "email_count" THEN count
        ELSE IF k = "num_emails" THEN 0
        ELSE lists[k]]

BinderStates(count) ==
    {BinderState(K, lists, count) :
        K \in SUBSET (ListKeys \cup {"num_emails"}),
        lists \in [ListKeys -> BinderLists]}

BinderInit ==
    /\ pc = "VALIDATING"
    /\ email_count \in EmailCounts
    /\ state \in BinderStates(email_count)
    /\ heap \in {[r \in Refs |-> [is_newsletter |-> IF r = 1 THEN f ELSE IF r = 2 THEN TRUE_ ELSE NONE,
                                   summary |-> NONE]] : f \in NewsletterFlags}
    /\ \E t \in ToolNames :
        /\ raw = Object(RequiredFields, t, "because", FALSE_)
        /\ plan = plan_next_step(raw)
    /\ tool_name = NONE
    /\ tool_params = << >>
    /\ result = NONE
    /\ stub = "none"
    /\ cycles = 0
    /\ calls = << >>
    /\ returned = NONE
    /\ error = NONE
    /\ oracle_calls = 1
    /\ cancel_requested = FALSE
    /\ registry = TOOLS
    /\ response = NoResponse
    /\ peer = NoPeer
    /\ active = 1

BinderNext == PrepareToolParams

BinderSpec == BinderInit /\ [][BinderNext]_vars

\* ------------------------------------------------ the normalizer alone
\* response.text as a sequence of characters.  A run of characters that no
\* cleaning step looks into is one element: the code-fence marker, the word
\* json, a key with its colon, a JSON literal.  The characters of the reason
\* string are elements of their own.
\* the three backticks of a code fence
FENCE  == "<fence>"
HIDDEN == "<U+200B>"
QUOTE  == "<quote>"

\* str.strip() and the regex class \s
Whitespace == {" ", "\n"}

Closers == {"}", "]"}

\* the first replace of llm.py:73: a fence followed by the word json
RECURSIVE RemoveJsonFences(_)
RemoveJsonFences(text) ==
    IF text = << >> THEN << >>
    ELSE IF Len(text) >= 2 /\ text[1] = FENCE /\ text[2] = "json"
    THEN RemoveJsonFences(SubSeq(text, 3, Len(text)))
    ELSE << Head(text) >> \o RemoveJsonFences(Tail(text))

\* llm.py:73
RemoveFences(text) == SelectSeq(RemoveJsonFences(text), LAMBDA c : c # FENCE)

RECURSIVE LStrip(_)
LStrip(text) ==
    IF text # << >> /\ Head(text) \in Whitespace THEN LStrip(Tail(text)) ELSE text

RECURSIVE RStrip(_)
RStrip(text) ==
    IF text # << >> /\ text[Len(text)] \in Whitespace
    THEN RStrip(SubSeq(text, 1, Len(text) - 1))
    ELSE text

\* llm.py:76
Strip(text) == RStrip(LStrip(text))

\* llm.py:79: U+200B is not printable
RemoveHidden(text) == SelectSeq(text, LAMBDA c : c # HIDDEN)

\* the regex ,(\s*[}\]]) of llm.py:82 matches at position i
TrailingComma(text, i) ==
    /\ text[i] = ","
    /\ \E j \in (i + 1)..Len(text) :
        /\ text[j] \in Closers
        /\ \A k \in (i + 1)..(j - 1) : text[k] \in Whitespace

RECURSIVE DropTrailingCommas(_, _)
DropTrailingCommas(text, i) ==
    IF i > Len(text) THEN << >>
    ELSE (IF TrailingComma(text, i) THEN << >> ELSE << text[i] >>)
            \o DropTrailingCommas(text, i + 1)

\* llm.py:82
StripTrailingCommas(text) == DropTrailingCommas(text, 1)

\* llm.py:58-87
clean_json_response(text) ==
    StripTrailingCommas(RemoveHidden(Strip(RemoveFences(text))))

\* the JSON literal of an encoded value
JsonLiterals ==
    [v \in {NONE, TRUE_, FALSE_, "fetch_emails", "format_digest"} |->
        CASE v = NONE -> "null"
          [] v = TRUE_ -> "true"
          [] v = FALSE_ -> "false"
          [] v = "fetch_emails" -> "<quote>fetch_emails<quote>"
          [] v = "format_digest" -> "<quote>format_digest<quote>"]

ValueOf(literal) == CHOOSE v \in DOMAIN JsonLiterals : JsonLiterals[v] = literal

KEY_TOOL == "<quote>tool<quote>:"
KEY_REASON == "<quote>reason<quote>:"
KEY_COMPLETE == "<quote>is_complete<quote>:"

\* the scanner of json.loads: whitespace between tokens is skipped, a string
\* runs from one quote to the next and is kept character by character
RECURSIVE Lex(_, _, _)
Lex(text, inStr, cur) ==
    IF text = << >>
    THEN [syms |-> IF inStr THEN << "<unterminated>" >> ELSE << >>, strs |-> << >>]
    ELSE LET c == Head(text)
             rest == Tail(text)
         IN  IF inStr
             THEN IF c = QUOTE
                  THEN LET r == Lex(rest, FALSE, << >>)
                       IN  [syms |-> << "<string>" >> \o r.syms,
                            strs |-> << cur >> \o r.strs]
                  ELSE Lex(rest, TRUE, Append(cur, c))
             ELSE IF c = QUOTE THEN Lex(rest, TRUE, << >>)
             ELSE IF c \in Whitespace THEN Lex(rest, FALSE, << >>)
             ELSE LET r == Lex(rest, FALSE, << >>)
                  IN  [syms |-> << c >> \o r.syms, strs |-> r.strs]

\* json.loads (llm.py:331) on a text that is a plan object or is not JSON
json_loads(text) ==
    LET lx == Lex(text, FALSE, << >>)
        y == lx.syms
    IN  IF /\ Len(y) = 10
           /\ y[1] = "{" /\ y[2] = KEY_TOOL
           /\ y[3] \in {JsonLiterals[v] : v \in {NONE, "fetch_emails", "format_digest"}}
           /\ y[4] = "," /\ y[5] = KEY_REASON /\ y[6] = "<string>"
           /\ y[7] = "," /\ y[8] = KEY_COMPLETE
           /\ y[9] \in {JsonLiterals[v] : v \in {TRUE_, FALSE_}}
           /\ y[10] = "}"
        THEN Object(RequiredFields, ValueOf(y[3]), lx.strs[1], ValueOf(y[9]))
        ELSE NonObject("invalid_json", {})

\* the characters a reason is made of here: a letter, and the ones the
\* cleaning steps look for
ReasonChars == {"x", ",", "}", " ", FENCE, HIDDEN}

RECURSIVE SeqsUpTo(_, _)
SeqsUpTo(S, n) ==
    IF n = 0 THEN {<< >>}
    ELSE LET shorter == SeqsUpTo(S, n - 1)
         IN  shorter \cup {Append(q, c) : q \in shorter, c \in S}

\* the well-formed plan objects the oracle is made to answer
PlanObjects ==
    [tool : {NONE, "fetch_emails", "format_digest"},
     reason : SeqsUpTo(ReasonChars, MaxReasonLen),
     is_complete : {TRUE_, FALSE_}]

\* json.dumps of a plan object, without optional whitespace
Bare(obj) ==
    << "{", KEY_TOOL, JsonLiterals[obj.tool], ",", KEY_REASON, QUOTE >>
        \o obj.reason
        \o << QUOTE, ",", KEY_COMPLETE, JsonLiterals[obj.is_complete], "}" >>

Forms == {"bare", "fenced", "padded", "trailing_comma"}

\* the four shapes an oracle gives its answer
Render(obj, form) ==
    LET b == Bare(obj) IN
    CASE form = "bare" -> b
      [] form = "fenced" -> << FENCE, "json", "\n" >> \o b \o << "\n", FENCE >>
      [] form = "padded" -> << " ", "\n" >> \o b \o << "\n", " " >>
      [] form = "trailing_comma" ->
            SubSeq(b, 1, Len(b) - 1) \o << ",", "\n", "}" >>

\* llm.py:325-340 on response.text = text
Normalize(text) ==
    IF Strip(text) = << >>
    THEN plan_next_step(NonObject("blank", {}))
    ELSE plan_next_step(json_loads(clean_json_response(text)))

NormalizerInit ==
    /\ pc = "PLANNING"
    /\ email_count \in EmailCounts
    /\ state = InitialState(email_count)
    /\ heap = [r \in Refs |-> FreshItem]
    /\ raw = NoRaw
    /\ plan = NoPlan
    /\ tool_name = NONE
    /\ tool_params = << >>
    /\ result = NONE
    /\ stub = "none"
    /\ cycles = 0
    /\ calls = << >>
    /\ returned = NONE
    /\ error = NONE
    /\ oracle_calls = 0
    /\ cancel_requested = FALSE
    /\ registry = TOOLS
    /\ peer = NoPeer
    /\ active = 1
    /\ response \in {[form |-> f, obj |-> o, text |-> Render(o, f)] :
                        f \in Forms, o \in PlanObjects}

\* llm.py:311-340: generate_content answers response.text
ParseResponse ==
    /\ pc = "PLANNING"
    /\ response.form # "none"
    /\ raw' = (IF Strip(response.text) = << >> THEN NonObject("blank", {})
               ELSE json_loads(clean_json_response(response.text)))
    /\ plan' = Normalize(response.text)
    /\ oracle_calls' = 1
    /\ cancel_requested' = FALSE
    /\ pc' = "VALIDATING"
    /\ UNCHANGED << response, registry, peer, active, email_count, state, heap,
                    tool_name, tool_params, result, stub, cycles, calls, returned,
                    error >>

NormalizerNext == ParseResponse

NormalizerSpec == NormalizerInit /\ [][NormalizerNext]_vars

\* =============================================================== claims
Terminated == pc \in {"DONE", "FAILED"}

\* the dicts of a list whose is_newsletter is True, in list order
RECURSIVE Qualifying(_, _)
Qualifying(items, h) ==
    IF items = << >> THEN << >>
    ELSE (IF h[Head(items)].is_newsletter = TRUE_ THEN << Head(items) >> ELSE << >>)
            \o Qualifying(Tail(items), h)

\* C1: a run performs at most a fixed maximum number of plan->execute cycles
\* (IterationCap) and is then stopped with a runaway-planning error.  The loop
\* of agent.py:126 has no guard: under the stub that always answers a
\* registered tool with is_complete false it starts cycle IterationCap + 1.
C1_CyclesWithinCap == cycles <= IterationCap

\* C2: a plan with is_complete false whose tool is no registry name ends the
\* run at once in FAILED with the unknown-tool error, with no tool invoked and
\* the state unchanged.
C2_UnknownToolRejected ==
    [][(pc = "VALIDATING" /\ plan.is_complete = FALSE_ /\ plan.tool \notin ToolNames)
        => (/\ pc' = "FAILED"
            /\ error' = "ValueError: Invalid tool selected"
            /\ cycles' = cycles
            /\ state' = state
            /\ heap' = heap)]_vars

\* C3: summarize_newsletters selected as the very first action of a run fails
\* with a missing-parameter error, the tool is not executed and the state
\* still equals the initial state.
C3_SummarizeFirstFails ==
    [][(/\ pc = "VALIDATING"
        /\ cycles = 0
        /\ ~Truthy(plan.is_complete)
        /\ plan.tool = "summarize_newsletters")
        => (/\ pc' = "FAILED"
            /\ error' = "MissingParameterError: newsletters"
            /\ cycles' = 0
            /\ state' = InitialState(email_count))]_vars

\* the end-to-end scenario: the happy-path stub's run is over, fetch_emails
\* returned 3 items and analyze_newsletters returned them with 2 marked
HappyPathScenario ==
    /\ stub = "happy_path"
    /\ pc = "DONE"
    /\ Len(calls) >= 2
    /\ Len(calls[1].out) = 3
    /\ calls[2].out = calls[1].out
    /\ Len(Qualifying(calls[1].out, heap)) = 2

\* C4: in the end-to-end scenario exactly 4 tool invocations occur, in
\* pipeline order, summarize and format are each called with exactly the 2
\* qualifying items, and the run returns exactly what format_digest returned.
C4_HappyPath ==
    HappyPathScenario =>
        /\ Len(calls) = 4
        /\ \A i \in 1..4 : calls[i].tool = HappyPath[i]
        /\ calls[3].args["newsletters"] = Qualifying(calls[1].out, heap)
        /\ calls[4].args["summarized_newsletters"] = Qualifying(calls[1].out, heap)
        /\ returned = calls[4].out

\* fetch_emails returned 3 items and analyze_newsletters returned them with
\* none marked as a newsletter
NoNewslettersFound ==
    /\ Len(state.emails) = 3
    /\ state.newsletters = state.emails
    /\ Qualifying(state.newsletters, heap) = << >>

C6_FilterCorrect ==
    [][(pc = "VALIDATING" /\ pc' = "EXECUTING")
        => (/\ state' = state
            /\ heap' = heap
            /\ \A i \in 1..Len(TOOL_MANIFESTS[tool_name'].input_params) :
                LET p == TOOL_MANIFESTS[tool_name'].input_params[i] IN
                    p.filter.present
                        => tool_params'[p.name] = Qualifying(state[p.name], heap))]_vars

\* a bound list that drops an item from the middle and keeps a later one
C6_Witness ==
    /\ pc = "EXECUTING"
    /\ tool_name = "summarize_newsletters"
    /\ Len(state.newsletters) = 3
    /\ tool_params["newsletters"] = << state.newsletters[1], state.newsletters[3] >>
    /\ heap[state.newsletters[2]].is_newsletter = "yes"

\* the oracle outputs the claim calls malformed
Malformed(r) ==
    \/ r.kind \in {"exception", "empty", "blank", "invalid_json"}
    \/ r.kind = "json_object" /\ ~(RequiredFields \subseteq r.keys)

\* C7: for every malformed oracle output and every exception of the oracle
\* call, plan_next_step hands the loop a plan with tool fetch_emails and
\* is_complete false; planning never ends the run.
C7_FallbackPlan ==
    [][pc = "PLANNING"
        => (/\ pc' \in {"PLANNING", "VALIDATING"}
            /\ (pc' = "VALIDATING" /\ Malformed(raw'))
                => (plan'.tool = "fetch_emails" /\ plan'.is_complete = FALSE_))]_vars

C7_Witness ==
    /\ pc = "VALIDATING"
    /\ raw.kind = "json_object"
    /\ raw.keys = {"tool", "is_complete"}
    /\ raw.tool = "analyze_newsletters"
    /\ plan.tool = "fetch_emails"
    /\ plan.is_complete = FALSE_

\* C8: every plan handed to the loop has exactly the fields tool, reason and
\* is_complete, with tool a string or null, reason a string and is_complete a
\* boolean.
C8_PlanWellFormed ==
    pc = "VALIDATING"
        => (/\ plan.keys = RequiredFields
            /\ (IsStr(plan.tool) \/ plan.tool = NONE)
            /\ IsStr(plan.reason)
            /\ IsBool(plan.is_complete))

\* a digest is present: state.digest is neither None nor the empty string
DigestPresent(st) == st.digest # NONE /\ st.digest # ""

\* C9: a run that reaches DONE returns state.digest when a digest is present
\* and the sentinel otherwise.
C9_ReturnedValue ==
    pc = "DONE"
        => returned = (IF DigestPresent(state) THEN state.digest ELSE SENTINEL)

C9_Witness ==
    pc = "DONE" /\ state.digest = "# Newsletter Digest A" /\ returned = state.digest

\* C10: a run returns the sentinel only when state.newsletters holds no item
\* with is_newsletter = True at the moment the run completes.
C10_SentinelOnlyWithoutNewsletters ==
    (pc = "DONE" /\ returned = SENTINEL) => Qualifying(state.newsletters, heap) = << >>

\* C11: when the invoked tool raises, the run ends in FAILED with the error
\* surfaced: update_state is not applied for that tool, neither a digest nor
\* the sentinel is returned, and no further oracle or tool call is made.
C11_ToolFailureEndsRun ==
    [][/\ (pc = "EXECUTING" /\ error' # NONE)
            => (pc' = "FAILED" /\ state' = state /\ returned' = NONE)
       /\ pc = "FAILED"
            => (/\ pc' = "FAILED"
                /\ state' = state
                /\ returned' = NONE
                /\ error' = error
                /\ cycles' = cycles
                /\ raw' = raw)]_vars

\* summarize_newsletters raised on its second newsletter
C11_Witness ==
    /\ pc = "FAILED"
    /\ error = "summarize_newsletters raised"
    /\ tool_name = "summarize_newsletters"
    /\ Len(tool_params["newsletters"]) = 2
    /\ heap[tool_params["newsletters"][1]].summary = "summary text"
    /\ state.summarized_newsletters = << >>
    /\ returned = NONE

\* C12: when the oracle call of a planning step raises, plan_next_step makes
\* the call a second time before it falls back (and never a third time).
\* llm.py:311 is called once; its exception goes straight to the fallback.
C12_RetriedOnce ==
    (pc = "VALIDATING" /\ raw.kind = "exception") => oracle_calls = 2

\* the state dict of a run, executing or suspended
StateOf(run) == IF active = run THEN state ELSE peer.state

\* C13: when two runs interleave, no step of one run changes a key of the
\* other run's state (nor a dict one of its lists holds), and no step
\* modifies the tool registry the runs share.
C13_RunsIsolated ==
    [][/\ \A run \in {1, 2} :
            (active # run \/ active' # run)
                => (/\ StateOf(run)' = StateOf(run)
                    /\ \A r \in Reachable(StateOf(run)) : heap'[r] = heap[r])
       /\ registry' = registry
       /\ registry = TOOLS]_vars

\* both runs are in the middle of the pipeline, each with its own emails
C13_Witness ==
    /\ pc = "EXECUTING"
    /\ tool_name = "summarize_newsletters"
    /\ peer.pc = "EXECUTING"
    /\ peer.tool_name = "analyze_newsletters"
    /\ Len(state.emails) = 2
    /\ Len(peer.state.emails) = 1
    /\ Range(state.emails) \cap Range(peer.state.emails) = {}

\* C14: a cancellation by the caller that arrives while an oracle call or a
\* tool call is in flight aborts that call and moves the run to FAILED, with
\* the state as it was before the iteration's update.  Nothing in the loop
\* reads the request: the call completes and the run goes on.
C14_CancelAborts ==
    [][(cancel_requested /\ pc \in {"PLANNING", "EXECUTING"})
        => (pc' = "FAILED" /\ state' = state)]_vars

\* C15: a plan with is_complete true ends the run in DONE whatever its tool
\* field holds (null, a registered or an unregistered name): the completion
\* check comes before the tool-name check, so no tool is invoked and no
\* unknown-tool error is raised.
C15_CompleteBeforeToolCheck ==
    [][(pc = "VALIDATING" /\ plan.is_complete = TRUE_)
        => (/\ pc' = "DONE"
            /\ returned' = ReturnValue(state)
            /\ error' = NONE
            /\ cycles' = cycles
            /\ state' = state)]_vars

\* the happy-path stub's last plan is {tool: null, is_complete: true}
C15_Witness ==
    /\ stub = "happy_path"
    /\ pc = "DONE"
    /\ cycles = Len(HappyPath)
    /\ error = NONE

\* C16: for every tool that declares a parameter named num_emails and every
\* state, a state that itself holds a key named num_emails included,
\* prepare_tool_params binds that parameter to the email_count of the
\* invocation: the constant takes precedence over the state.
C16_ConstantOverState ==
    [][(pc = "VALIDATING" /\ pc' = "EXECUTING")
        => \A i \in 1..Len(registry[tool_name'].manifest.input_params) :
            registry[tool_name'].manifest.input_params[i].name = "num_emails"
                => (/\ "num_emails" \in DOMAIN tool_params'
                    /\ tool_params'["num_emails"] = email_count)]_vars

\* fetch_emails bound on a state whose num_emails key holds another value
C16_Witness ==
    /\ pc = "EXECUTING"
    /\ tool_name = "fetch_emails"
    /\ "num_emails" \in DOMAIN state
    /\ state["num_emails"] # email_count
    /\ tool_params["num_emails"] = email_count

\* the error the binder is to fail with
MissingParameterError(param, tool) == << "MissingParameterError", param, tool >>

\* the required parameters of a tool that are neither the invocation-time
\* constant nor a key of the state
Unresolved(tool, st) ==
    {q.name : q \in {p \in Range(registry[tool].manifest.input_params) :
                        p.required /\ p.name # "num_emails" /\ p.name \notin DOMAIN st}}

\* C17: for every tool and every state in which a required parameter of the
\* tool is neither an invocation-time constant nor a key of the state,
\* binding fails with a missing-parameter error naming the parameter and the
\* tool, and the tool function is not called.  prepare_tool_params skips the
\* parameter and returns; the loop goes on to call the tool without it.
C17_MissingParameterFails ==
    [][(/\ pc = "VALIDATING"
        /\ Dispatch(plan) = "ok"
        /\ Unresolved(plan.tool, state) # {})
        => (/\ pc' = "FAILED"
            /\ \E param \in Unresolved(plan.tool, state) :
                    error' = MissingParameterError(param, plan.tool)
            /\ cycles' = cycles)]_vars

\* C19: after update_state(state, tool, result) every key of the tool's
\* manifest writes holds exactly result, its previous value discarded without
\* being read, merged or appended to, and every other key of the state holds
\* the value it had before the call.
C19_WritesHoldResult ==
    [][(pc = "UPDATING" /\ pc' = "PLANNING")
        => (LET writes == Range(registry[tool_name].manifest.writes) IN
                /\ writes \subseteq DOMAIN state'
                /\ \A k \in DOMAIN state' :
                    (IF k \in writes THEN state'[k] = result
                     ELSE (k \in DOMAIN state /\ state'[k] = state[k])))]_vars

\* a second fetch_emails replaced a non-empty list of emails by another
C19_Witness ==
    /\ stub = "fetch_emails"
    /\ pc = "PLANNING"
    /\ cycles = 2
    /\ calls[1].out # << >>
    /\ calls[2].out # << >>
    /\ Range(calls[2].out) \cap Range(calls[1].out) = {}
    /\ state.emails = calls[2].out
    /\ state.newsletters = << >>

\* the manifest writes of the tool being executed
WritesOf(tool) == Range(registry[tool].manifest.writes)

\* C20: one full EXECUTING step (bind, tool run, state update) changes only
\* the state keys of the tool's manifest writes: every other key, the key the
\* tool reads included, holds the same elements with the same field contents
\* after the step as before it.  identify_newsletters and generate_summaries
\* write is_newsletter and summary into the very dicts the state's lists hold.
C20_OtherKeysUntouched ==
    [][(pc \in {"EXECUTING", "UPDATING"})
        => (\A k \in DOMAIN state \ WritesOf(tool_name) :
                /\ state'[k] = state[k]
                /\ k \in ListKeys => (\A r \in Range(state[k]) : heap'[r] = heap[r]))]_vars

\* C21: a planning step never changes the state: whatever the oracle call
\* produced (a valid plan, malformed text, empty text, an exception), the
\* state after plan_next_step returns equals, key by key, the state before
\* the call, and the dicts its lists hold are as they were.
C21_PlanningKeepsState ==
    [][(pc = "PLANNING" /\ pc' = "VALIDATING")
        => (/\ DOMAIN state' = DOMAIN state
            /\ \A k \in DOMAIN state : state'[k] = state[k]
            /\ heap' = heap)]_vars

\* the oracle call raised while the state already held marked emails
C21_Witness ==
    /\ pc = "VALIDATING"
    /\ raw.kind = "exception"
    /\ Len(state.newsletters) = 2
    /\ heap[state.newsletters[1]].is_newsletter = TRUE_

\* C22: within one run oracle calls and tool calls strictly alternate and
\* never overlap: a tool is invoked only after exactly one oracle call whose
\* plan named that tool, and the state update of an iteration is committed
\* before the oracle call of the next iteration starts.
C22_StrictAlternation ==
    [][/\ (pc' = "VALIDATING" /\ pc # "VALIDATING")
            \* an oracle call starts from PLANNING, with no tool result pending
            => (pc = "PLANNING" /\ result = NONE /\ oracle_calls = 0 /\ oracle_calls' = 1)
       /\ (pc' = "EXECUTING" /\ pc # "EXECUTING")
            \* a tool call is entered from the one plan that named the tool
            => (pc = "VALIDATING" /\ oracle_calls = 1 /\ tool_name' = plan.tool)
       /\ cycles' # cycles
            \* the tool runs while no oracle call is in flight
            => (/\ pc = "EXECUTING"
                /\ oracle_calls = 0
                /\ cycles' = cycles + 1
                /\ pc' \in {"UPDATING", "FAILED"})
       /\ (pc = "UPDATING" /\ pc' # "UPDATING")
            \* the result is committed before the loop plans again
            => (/\ pc' = "PLANNING"
                /\ state' = update_state(state, tool_name, result)
                /\ result' = NONE)]_vars

\* the third oracle call of a run has answered; two updates are in the state
C22_Witness ==
    /\ pc = "VALIDATING"
    /\ oracle_calls = 1
    /\ cycles = 2
    /\ state.emails # << >>
    /\ state.newsletters = state.emails
    /\ result = NONE

\* the run has returned a value or raised an error
Over == returned # NONE \/ error # NONE

\* C23: DONE and FAILED are terminal: once a run has returned the digest or
\* the sentinel, or has raised an error, it makes no further oracle call,
\* invokes no further tool and changes no key of its state.
C23_TerminalStates ==
    [][/\ (returned' # NONE \/ error' # NONE) => pc' \in {"DONE", "FAILED"}
       /\ (Over \/ Terminated)
            => (/\ pc' = pc
                /\ oracle_calls' = oracle_calls
                /\ raw' = raw
                /\ cycles' = cycles
                /\ state' = state
                /\ heap' = heap
                /\ returned' = returned
                /\ error' = error)]_vars

\* a run that returned the sentinel with fetched emails in its state
C23_Witness ==
    /\ pc = "DONE"
    /\ returned = SENTINEL
    /\ state.emails # << >>
    /\ error = NONE

\* C24: in every reachable state of a run the email_count held in the state
\* equals the value given to invoke_agent: no manifest writes that key and no
\* sequence of tool executions or fallback plans overwrites it.
C24_EmailCountKept ==
    /\ "email_count" \in DOMAIN state
    /\ state["email_count"] = email_count
    /\ \A t \in DOMAIN registry :
            "email_count" \notin Range(registry[t].manifest.writes)

\* fetch_emails ran IterationCap times and last returned fewer emails than
\* were asked for
C24_Witness ==
    /\ stub = "fetch_emails"
    /\ pc = "PLANNING"
    /\ cycles = IterationCap
    /\ Len(state.emails) = 1
    /\ state.email_count = email_count
    /\ email_count > 1

\* the parameter names a tool's manifest declares
Declared(tool) == {p.name : p \in Range(registry[tool].manifest.input_params)}

\* C26: with the shipped registry and the initial state built by
\* invoke_agent, in every reachable state the arguments prepare_tool_params
\* returns for any registered tool hold exactly the parameter names of the
\* tool's manifest, and no tool is called with a declared parameter unbound.
C26_AllDeclaredBound ==
    /\ \A t \in DOMAIN registry :
            DOMAIN prepare_tool_params(t, state, heap, email_count) = Declared(t)
    /\ pc \in {"EXECUTING", "UPDATING"} => DOMAIN tool_params = Declared(tool_name)

\* format_digest called as the first tool of a run, on the empty initial list
C26_Witness ==
    /\ pc = "UPDATING"
    /\ tool_name = "format_digest"
    /\ cycles = 1
    /\ DOMAIN tool_params = {"summarized_newsletters"}
    /\ tool_params["summarized_newsletters"] = << >>

\* what the most recent format_digest invocation of the log returned (NONE
\* when none has returned)
LastDigest(log) ==
    LET returns == {i \in 1..Len(log) :
                        log[i].tool = "format_digest" /\ log[i].out # NONE}
    IN  IF returns = {} THEN NONE
        ELSE log[CHOOSE i \in returns : \A j \in returns : j <= i].out

\* C27: state.digest is non-null only if format_digest has been invoked
\* earlier in the run, and it then equals what the most recent format_digest
\* invocation returned; no other tool and no fallback plan changes it.  The
\* digest changes only in the update that follows format_digest, to its
\* result; in the runs whose calls are logged it equals the last logged
\* format_digest result whenever no update is pending.
C27_DigestFromFormat ==
    [][/\ state'.digest # state.digest
            => (/\ pc = "UPDATING"
                /\ tool_name = "format_digest"
                /\ state'.digest = result)
       /\ (pc = "UPDATING" /\ tool_name = "format_digest" /\ pc' = "PLANNING")
            => state'.digest = result
       /\ (stub' # "none" /\ pc' # "UPDATING")
            => state'.digest = LastDigest(calls')]_vars

\* format_digest returned two different texts; the state holds the second
C27_Witness ==
    /\ stub = "format_digest"
    /\ pc = "PLANNING"
    /\ cycles = 2
    /\ calls[1].out = "# Newsletter Digest A"
    /\ calls[2].out = "# Newsletter Digest B"
    /\ state.digest = "# Newsletter Digest B"

\* the plan handed to the loop carries the fields of the plan object
SamePlan(p, obj) ==
    /\ p.keys = RequiredFields
    /\ p.tool = obj.tool
    /\ p.is_complete = obj.is_complete
    /\ p.reason = obj.reason

\* C25: for every well-formed plan object the normalizer returns that plan
\* whether the oracle text is the bare JSON, the JSON in code-fence markers,
\* the JSON surrounded by whitespace or the JSON with a trailing comma before
\* its closing brace; cleaning changes nothing inside the values of the
\* plan's fields.  The cleaning steps work on the whole text, the inside of
\* the reason string included.
C25_CleaningKeepsPlan ==
    (pc = "VALIDATING" /\ response.form # "none")
        => (raw.kind = "json_object" /\ SamePlan(plan, response.obj))

====
